---- MODULE Spec2Model ----
(***************************************************************************)
(* Model of src-tauri/src/oauth.rs: the loopback OAuth redirect-capture    *)
(* server (wait_for_oauth_callback), its request parser                    *)
(* (parse_oauth_callback, urlencoding_decode) and its response renderer    *)
(* (get_success_html, get_error_html).                                     *)
(*                                                                         *)
(* Strings are sequences of Unicode code points (naturals); byte buffers   *)
(* are sequences of bytes 0..255.  Option<T> is a sequence of length 0     *)
(* (None) or 1 (Some(v)).                                                  *)
(***************************************************************************)
EXTENDS Integers, Sequences, FiniteSets, TLC

(***************************************************************************)
(* Bounds of the model                                                     *)
(***************************************************************************)
\* connections the browser / other local clients open during one call
MaxConns == 2
\* largest timeout_secs the caller passes (the contract requires timeout > 0)
MaxTimeout == 2
\* accept() failures during one call
MaxAcceptErrs == 1
\* longest raw string handed to a pure function
MaxLen == 4
\* longest printable text that is percent-encoded and decoded again
MaxTextLen == 2
\* most parameters in a query string handed to the parser
MaxParams == 2

(***************************************************************************)
(* Program constants                                                       *)
(***************************************************************************)
\* vec![0u8; 4096]
BufSize == 4096
\* byte length of the page returned by get_success_html
SuccessHtmlLen == 1452
\* byte length of get_error_html's template before the {} placeholder
ErrorHtmlHeadLen == 1519
\* byte length of get_error_html's template after the {} placeholder
ErrorHtmlTailLen == 31

(***************************************************************************)
(* String literals of the source, as code points                           *)
(***************************************************************************)
\* "code"
S_code == <<99, 111, 100, 101>>
\* "error"
S_error == <<101, 114, 114, 111, 114>>
\* "error_description"
S_error_description ==
    <<101, 114, 114, 111, 114, 95, 100, 101, 115, 99, 114, 105, 112, 116, 105, 111, 110>>
\* "Invalid HTTP request"
S_InvalidHttpRequest ==
    <<73, 110, 118, 97, 108, 105, 100, 32, 72, 84, 84, 80, 32, 114, 101, 113, 117, 101, 115, 116>>
\* "No query parameters in callback"
S_NoQueryParameters ==
    <<78, 111, 32, 113, 117, 101, 114, 121, 32, 112, 97, 114, 97, 109, 101, 116, 101, 114,
      115, 32, 105, 110, 32, 99, 97, 108, 108, 98, 97, 99, 107>>
\* "Unknown error"
S_UnknownError == <<85, 110, 107, 110, 111, 119, 110, 32, 101, 114, 114, 111, 114>>

\* The static text of the two pages is carried as one token each (a negative
\* number, so that it is no code point); its byte length is kept.
SuccessHtml == -1
ErrorHtmlHead == -2
ErrorHtmlTail == -3

(***************************************************************************)
(* Option<T>                                                               *)
(***************************************************************************)
None == <<>>
Some(v) == <<v>>
is_some(o) == Len(o) = 1
unwrap_or(o, d) == IF is_some(o) THEN o[1] ELSE d

SetMin(S) == CHOOSE x \in S : \A y \in S : x <= y
SetMax(S) == CHOOSE x \in S : \A y \in S : x >= y

(***************************************************************************)
(* str / String helpers of the standard library, as the parser uses them   *)
(***************************************************************************)
\* char::len_utf8; a page token counts its template's bytes
Utf8Len(c) ==
    IF c = SuccessHtml THEN SuccessHtmlLen
    ELSE IF c = ErrorHtmlHead THEN ErrorHtmlHeadLen
    ELSE IF c = ErrorHtmlTail THEN ErrorHtmlTailLen
    ELSE IF c < 128 THEN 1
    ELSE IF c < 2048 THEN 2
    ELSE IF c < 65536 THEN 3
    ELSE 4

\* str::len: the length in bytes of the UTF-8 encoding
RECURSIVE ByteLen(_)
ByteLen(s) == IF s = <<>> THEN 0 ELSE Utf8Len(Head(s)) + ByteLen(Tail(s))

\* String::from_utf8_lossy on a buffer whose non-ASCII bytes are never part of
\* a well-formed multi-byte sequence (the model's requests use 0xFF only):
\* every such byte becomes U+FFFD.
from_utf8_lossy(bytes) ==
    [i \in 1..Len(bytes) |-> IF bytes[i] < 128 THEN bytes[i] ELSE 65533]

\* char::is_whitespace (White_Space property)
WhiteSpace ==
    {9, 10, 11, 12, 13, 32, 133, 160, 5760, 8232, 8233, 8239, 8287, 12288}
        \cup (8192..8202)

\* str::split(char): the pieces between separators, empty pieces included
RECURSIVE SplitOn(_, _)
SplitOn(s, seps) ==
    LET idx == {i \in 1..Len(s) : s[i] \in seps}
    IN  IF idx = {} THEN <<s>>
        ELSE LET i == SetMin(idx)
             IN  <<SubSeq(s, 1, i - 1)>> \o SplitOn(SubSeq(s, i + 1, Len(s)), seps)

\* first_line that takes the whole request
first_line_Whole(request) == request

\* str::lines().next().unwrap_or(""): up to the first '\n', less one '\r'
\* before it
first_line(request) ==
    LET idx == {i \in 1..Len(request) : request[i] = 10}
    IN  IF idx = {} THEN request
        ELSE LET i == SetMin(idx)
                 l == SubSeq(request, 1, i - 1)
             IN  IF Len(l) > 0 /\ l[Len(l)] = 13 THEN SubSeq(l, 1, Len(l) - 1) ELSE l

\* str::split_whitespace: the non-empty pieces between white space
split_whitespace(s) == SelectSeq(SplitOn(s, WhiteSpace), LAMBDA t : t # <<>>)

\* HexDigit that knows the digits and the lower-case letters only
HexDigit_NoUpper(c) ==
    IF c >= 48 /\ c <= 57 THEN c - 48
    ELSE IF c >= 97 /\ c <= 102 THEN c - 87
    ELSE -1

\* char::to_digit(16)
HexDigit(c) ==
    IF c >= 48 /\ c <= 57 THEN c - 48
    ELSE IF c >= 65 /\ c <= 70 THEN c - 55
    ELSE IF c >= 97 /\ c <= 102 THEN c - 87
    ELSE -1

\* u8::from_str_radix(hex, 16) on a string of two bytes; -1 stands for Err.
\* An unsigned parse takes a leading '+' as a sign.
from_str_radix16(hex) ==
    IF Len(hex) = 2 /\ hex[1] = 43 /\ HexDigit(hex[2]) >= 0 THEN HexDigit(hex[2])
    ELSE IF Len(hex) = 2 /\ HexDigit(hex[1]) >= 0 /\ HexDigit(hex[2]) >= 0
         THEN 16 * HexDigit(hex[1]) + HexDigit(hex[2])
    ELSE -1

(***************************************************************************)
(* urlencoding_decode                                                      *)
(***************************************************************************)
RECURSIVE urlencoding_decode(_)
urlencoding_decode(s) ==
    IF s = <<>> THEN <<>>
    ELSE LET c == Head(s)
             rest == Tail(s)
         IN  IF c = 37
             THEN LET hex == SubSeq(rest, 1, IF Len(rest) < 2 THEN Len(rest) ELSE 2)
                      after == SubSeq(rest, Len(hex) + 1, Len(rest))
                  IN  IF ByteLen(hex) = 2 /\ from_str_radix16(hex) >= 0
                      THEN <<from_str_radix16(hex)>> \o urlencoding_decode(after)
                      ELSE <<37>> \o hex \o urlencoding_decode(after)
             ELSE IF c = 43 THEN <<32>> \o urlencoding_decode(rest)
             ELSE <<c>> \o urlencoding_decode(rest)

(***************************************************************************)
(* parse_oauth_callback                                                    *)
(***************************************************************************)
OAuthCallbackResult(code, error, error_description) ==
    [code |-> code, error |-> error, error_description |-> error_description]

\* pair.splitn(2, '='): the key, and the value or "" when there is no '='
SplitPair(pair) ==
    LET idx == {i \in 1..Len(pair) : pair[i] = 61}
    IN  IF idx = {} THEN [key |-> pair, value |-> <<>>]
        ELSE LET i == SetMin(idx)
             IN  [key |-> SubSeq(pair, 1, i - 1), value |-> SubSeq(pair, i + 1, Len(pair))]

\* ParamsGet that matches a parameter whose name starts with the name asked
\* for
ParamsGet_Prefix(query, name) ==
    LET pairs == SplitOn(query, {38})
        idx == {i \in 1..Len(pairs) :
                    /\ Len(SplitPair(pairs[i]).key) >= Len(name)
                    /\ SubSeq(SplitPair(pairs[i]).key, 1, Len(name)) = name}
    IN  IF idx = {} THEN None ELSE Some(SplitPair(pairs[SetMax(idx)]).value)

\* ParamsGet in which the first insertion of a key stays
ParamsGet_First(query, name) ==
    LET pairs == SplitOn(query, {38})
        idx == {i \in 1..Len(pairs) : SplitPair(pairs[i]).key = name}
    IN  IF idx = {} THEN None ELSE Some(SplitPair(pairs[SetMin(idx)]).value)

\* query.split('&') ... .collect::<HashMap>() followed by params.get(name):
\* a later insertion of the same key replaces the earlier one
ParamsGet(query, name) ==
    LET pairs == SplitOn(query, {38})
        idx == {i \in 1..Len(pairs) : SplitPair(pairs[i]).key = name}
    IN  IF idx = {} THEN None ELSE Some(SplitPair(pairs[SetMax(idx)]).value)

\* MapDecode that hands the raw value on
MapDecode_Raw(o) == IF is_some(o) THEN Some(o[1]) ELSE None

\* Option::map(urlencoding_decode)
MapDecode(o) == IF is_some(o) THEN Some(urlencoding_decode(o[1])) ELSE None

parse_oauth_callback(request) ==
    LET parts == split_whitespace(first_line(request))
    IN  IF Len(parts) < 2
        THEN OAuthCallbackResult(None, Some(S_InvalidHttpRequest), None)
        ELSE LET path == parts[2]
                 qidx == {i \in 1..Len(path) : path[i] = 63}
             IN  IF qidx # {}
                 THEN LET query == SubSeq(path, SetMin(qidx) + 1, Len(path))
                      IN  OAuthCallbackResult(
                              MapDecode(ParamsGet(query, S_code)),
                              MapDecode(ParamsGet(query, S_error)),
                              MapDecode(ParamsGet(query, S_error_description)))
                 ELSE OAuthCallbackResult(None, Some(S_NoQueryParameters), None)

(***************************************************************************)
(* Response renderer and HTTP response                                     *)
(***************************************************************************)
get_success_html == <<SuccessHtml>>

get_error_html(error) == <<ErrorHtmlHead>> \o error \o <<ErrorHtmlTail>>

\* StatusAndBody that classifies by the absence of error instead of the
\* presence of code
StatusAndBody_ByError(result) ==
    IF ~is_some(result.error)
    THEN [status |-> "200 OK", body |-> get_success_html]
    ELSE [status |-> "400 Bad Request",
          body |-> get_error_html(unwrap_or(result.error, S_UnknownError))]

\* StatusAndBody whose success page shows the code
StatusAndBody_EchoCode(result) ==
    IF is_some(result.code)
    THEN [status |-> "200 OK", body |-> get_success_html \o result.code[1]]
    ELSE [status |-> "400 Bad Request",
          body |-> get_error_html(unwrap_or(result.error, S_UnknownError))]

\* lines 61-65: the status and the body chosen from the parsed result
StatusAndBody(result) ==
    IF is_some(result.code)
    THEN [status |-> "200 OK", body |-> get_success_html]
    ELSE [status |-> "400 Bad Request",
          body |-> get_error_html(unwrap_or(result.error, S_UnknownError))]

\* lines 67-72: the response, one field per part of the format string
HttpResponse(result) ==
    LET sb == StatusAndBody(result)
    IN  [version |-> "HTTP/1.1",
         status |-> sb.status,
         content_type |-> "text/html; charset=utf-8",
         content_length |-> ByteLen(sb.body),
         connection |-> "close",
         body |-> sb.body]

(***************************************************************************)
(* Requests the clients of the model send (bytes on the wire)              *)
(***************************************************************************)
\* 'GET /cb?code=ABC123 HTTP/1.1\r\n\r\n'
ReqCode ==
    <<71, 69, 84, 32, 47, 99, 98, 63, 99, 111, 100, 101, 61, 65, 66, 67, 49, 50, 51,
      32, 72, 84, 84, 80, 47, 49, 46, 49, 13, 10, 13, 10>>
\* 'GET /cb?error=access_denied&error_description=User%20cancelled HTTP/1.1\r\n\r\n'
ReqDenied ==
    <<71, 69, 84, 32, 47, 99, 98, 63, 101, 114, 114, 111, 114, 61, 97, 99, 99, 101,
      115, 115, 95, 100, 101, 110, 105, 101, 100, 38, 101, 114, 114, 111, 114, 95, 100,
      101, 115, 99, 114, 105, 112, 116, 105, 111, 110, 61, 85, 115, 101, 114, 37, 50,
      48, 99, 97, 110, 99, 101, 108, 108, 101, 100, 32, 72, 84, 84, 80, 47, 49, 46, 49,
      13, 10, 13, 10>>
\* 'GET /cb?state=xyz HTTP/1.1\r\n\r\n'
ReqOnlyState ==
    <<71, 69, 84, 32, 47, 99, 98, 63, 115, 116, 97, 116, 101, 61, 120, 121, 122, 32,
      72, 84, 84, 80, 47, 49, 46, 49, 13, 10, 13, 10>>
\* 'GET /cb?code=%41\xff HTTP/1.1\r\n\r\n'
ReqNotUtf8 ==
    <<71, 69, 84, 32, 47, 99, 98, 63, 99, 111, 100, 101, 61, 37, 52, 49, 255, 32, 72,
      84, 84, 80, 47, 49, 46, 49, 13, 10, 13, 10>>
\* "ABC123"
S_ABC123 == <<65, 66, 67, 49, 50, 51>>

\* a client that connects and closes without sending a byte
ReqEmpty == <<>>

Requests ==
    {ReqCode, ReqDenied, ReqOnlyState, ReqNotUtf8, ReqEmpty}

(***************************************************************************)
(* State of one call of wait_for_oauth_callback                            *)
(***************************************************************************)
VARIABLES
    \* the caller: "idle" (not bound yet), "bound" (line 32), "waiting" (in the
    \* timeout(..).await of line 94), "returned"
    mainPc,
    \* what the call returned: kind is "none", "bind_error", "outcome",
    \* "closed" or "timeout"
    ret,
    \* whether TcpListener::bind of this port succeeds (the port is not taken)
    portFree,
    \* the argument timeout_secs
    timeout_secs,
    \* seconds elapsed since the Timeout future was created
    now,
    \* the listening socket: "none", "bound", "closed"
    listener,
    \* the Option<Sender> behind the mutex: "none" (no channel yet), "some", "taken"
    txSlot,
    \* who holds a clone of the Arc around it: a subset of {"main", "task"}
    txHolders,
    \* the Receiver: "none", "alive", "dropped"
    rx,
    \* the value in the one-shot channel: None or Some(result)
    slot,
    \* the spawned task: "unspawned"; the await it is suspended at, "accept",
    \* "read", "write", "shutdown"; "break" (result sent, future not yet dropped);
    \* "finished", "cancelled", "panicked"
    handle,
    \* handle.abort() was called
    abortRequested,
    \* the task's local variable result
    result,
    \* connections waiting in the listener's accept queue (their request bytes)
    backlog,
    \* the connections accepted so far, in order, with what happened on each
    \* (read_at: the clock when its read succeeded)
    conns,
    \* connections opened so far
    arrivals,
    \* accept() failures so far
    acceptErrs,
    \* the calls of tx.send so far: the value, and whether the channel took it
    sent,
    \* the task panicked while the caller was waiting and nothing had been sent
    crashedWhileWaiting,
    \* one call of a pure function of the module, outside any server call: the
    \* function applied (fn, "none" before the call), its argument and what it
    \* returned
    call

vars ==
    <<mainPc, ret, portFree, timeout_secs, now, listener, txSlot, txHolders, rx, slot,
      handle, abortRequested, result, backlog, conns, arrivals, acceptErrs, sent,
      crashedWhileWaiting, call>>

NoResult == OAuthCallbackResult(None, None, None)

\* no pure function is being called
NoCall == [fn |-> "none", kind |-> "none", arg |-> <<>>, out |-> <<>>]

Returned(kind, val, secs) == [kind |-> kind, val |-> val, secs |-> secs]

\* the last accepted connection: the task's local variable socket
Cur == Len(conns)

\* the Sender was dropped without a value: every Arc is gone and nobody took it
SenderDropped == txSlot = "some" /\ txHolders = {}

\* the Sleep of the Timeout future has elapsed
Elapsed == now >= timeout_secs

\* the awaits at which the runtime can drop a task that was aborted
Suspended == handle \in {"accept", "read", "write", "shutdown"}

Init ==
    /\ mainPc = "idle"
    /\ ret = Returned("none", NoResult, 0)
    /\ portFree \in BOOLEAN
    /\ timeout_secs \in 1..MaxTimeout
    /\ now = 0
    /\ listener = "none"
    /\ txSlot = "none"
    /\ txHolders = {}
    /\ rx = "none"
    /\ slot = None
    /\ handle = "unspawned"
    /\ abortRequested = FALSE
    /\ result = NoResult
    /\ backlog = <<>>
    /\ conns = <<>>
    /\ arrivals = 0
    /\ acceptErrs = 0
    /\ sent = <<>>
    /\ crashedWhileWaiting = FALSE
    /\ call = NoCall

(***************************************************************************)
(* The caller: wait_for_oauth_callback                                     *)
(***************************************************************************)
\* lines 26-32: bind succeeded
BindOk ==
    /\ mainPc = "idle"
    /\ portFree
    /\ mainPc' = "bound"
    /\ listener' = "bound"
    /\ UNCHANGED <<ret, portFree, timeout_secs, now, txSlot, txHolders, rx, slot, handle,
                   abortRequested, result, backlog, conns, arrivals, acceptErrs, sent,
                   crashedWhileWaiting, call>>

\* BindFail that waits for the port and binds again instead of returning
BindFail_Retry ==
    /\ mainPc = "idle"
    /\ ~portFree
    /\ portFree' = TRUE
    /\ UNCHANGED <<mainPc, ret, timeout_secs, now, listener, txSlot, txHolders, rx, slot,
                   handle, abortRequested, result, backlog, conns, arrivals, acceptErrs,
                   sent, crashedWhileWaiting, call>>

\* lines 28-30: bind failed, the ? returns the error
BindFail ==
    /\ mainPc = "idle"
    /\ ~portFree
    /\ mainPc' = "returned"
    /\ ret' = Returned("bind_error", NoResult, 0)
    /\ UNCHANGED <<portFree, timeout_secs, now, listener, txSlot, txHolders, rx, slot,
                   handle, abortRequested, result, backlog, conns, arrivals, acceptErrs,
                   sent, crashedWhileWaiting, call>>

\* lines 35-94: the channel, the two Arc clones, the spawned task (which owns
\* the listener and tx_clone), the Timeout future around rx
Spawn ==
    /\ mainPc = "bound"
    /\ mainPc' = "waiting"
    /\ txSlot' = "some"
    /\ txHolders' = {"main", "task"}
    /\ rx' = "alive"
    /\ handle' = "accept"
    /\ now' = 0
    /\ UNCHANGED <<ret, portFree, timeout_secs, listener, slot, abortRequested, result,
                   backlog, conns, arrivals, acceptErrs, sent, crashedWhileWaiting, call>>

\* AwaitTimeout with the Sleep polled before rx: an elapsed deadline wins over
\* a value that is already in the channel
AwaitTimeout_TimerFirst ==
    /\ mainPc = "waiting"
    /\ is_some(slot) \/ SenderDropped \/ Elapsed
    /\ ret' = IF Elapsed THEN Returned("timeout", NoResult, timeout_secs)
              ELSE IF is_some(slot) THEN Returned("outcome", slot[1], 0)
              ELSE Returned("closed", NoResult, 0)
    /\ rx' = "dropped"
    /\ abortRequested' = TRUE
    /\ txHolders' = txHolders \ {"main"}
    /\ mainPc' = "returned"
    /\ UNCHANGED <<portFree, timeout_secs, now, listener, txSlot, slot, handle, result,
                   backlog, conns, arrivals, acceptErrs, sent, crashedWhileWaiting, call>>

\* AwaitTimeout without the deadline: the caller awaits rx alone
AwaitTimeout_NoDeadline ==
    /\ mainPc = "waiting"
    /\ is_some(slot) \/ SenderDropped
    /\ ret' = IF is_some(slot) THEN Returned("outcome", slot[1], 0)
              ELSE Returned("closed", NoResult, 0)
    /\ rx' = "dropped"
    /\ abortRequested' = TRUE
    /\ txHolders' = txHolders \ {"main"}
    /\ mainPc' = "returned"
    /\ UNCHANGED <<portFree, timeout_secs, now, listener, txSlot, slot, handle, result,
                   backlog, conns, arrivals, acceptErrs, sent, crashedWhileWaiting, call>>

\* AwaitTimeout that aborts the task on the timeout arm only
AwaitTimeout_AbortOnTimeout ==
    /\ mainPc = "waiting"
    /\ is_some(slot) \/ SenderDropped \/ Elapsed
    /\ ret' = IF is_some(slot) THEN Returned("outcome", slot[1], 0)
              ELSE IF SenderDropped THEN Returned("closed", NoResult, 0)
              ELSE Returned("timeout", NoResult, timeout_secs)
    /\ rx' = "dropped"
    /\ abortRequested' = ~(is_some(slot) \/ SenderDropped)
    /\ txHolders' = txHolders \ {"main"}
    /\ mainPc' = "returned"
    /\ UNCHANGED <<portFree, timeout_secs, now, listener, txSlot, slot, handle, result,
                   backlog, conns, arrivals, acceptErrs, sent, crashedWhileWaiting, call>>

\* lines 94-107: Timeout polls rx first and the Sleep second; every arm calls
\* handle.abort() and returns, which drops rx and the caller's Arc
AwaitTimeout ==
    /\ mainPc = "waiting"
    /\ is_some(slot) \/ SenderDropped \/ Elapsed
    /\ ret' = IF is_some(slot) THEN Returned("outcome", slot[1], 0)
              ELSE IF SenderDropped THEN Returned("closed", NoResult, 0)
              ELSE Returned("timeout", NoResult, timeout_secs)
    /\ rx' = "dropped"
    /\ abortRequested' = TRUE
    /\ txHolders' = txHolders \ {"main"}
    /\ mainPc' = "returned"
    /\ UNCHANGED <<portFree, timeout_secs, now, listener, txSlot, slot, handle, result,
                   backlog, conns, arrivals, acceptErrs, sent, crashedWhileWaiting, call>>

\* the runtime's clock: one more second passes while the caller waits
Tick ==
    /\ mainPc = "waiting"
    /\ now < timeout_secs
    /\ now' = now + 1
    /\ UNCHANGED <<mainPc, ret, portFree, timeout_secs, listener, txSlot, txHolders, rx,
                   slot, handle, abortRequested, result, backlog, conns, arrivals,
                   acceptErrs, sent, crashedWhileWaiting, call>>

(***************************************************************************)
(* The clients                                                             *)
(***************************************************************************)
\* a client connects to the bound port and sends its request
Arrive ==
    /\ listener = "bound"
    /\ arrivals < MaxConns
    /\ \E req \in Requests : backlog' = Append(backlog, req)
    /\ arrivals' = arrivals + 1
    /\ UNCHANGED <<mainPc, ret, portFree, timeout_secs, now, listener, txSlot, txHolders,
                   rx, slot, handle, abortRequested, result, conns, acceptErrs, sent,
                   crashedWhileWaiting, call>>

(***************************************************************************)
(* The spawned task (lines 40-90)                                          *)
(***************************************************************************)
\* line 42-43: accept returns a connection
Accept ==
    /\ handle = "accept"
    /\ backlog # <<>>
    /\ conns' = Append(conns, [data |-> Head(backlog), read |-> "pending", read_at |-> 0,
                               response |-> None, written |-> "no"])
    /\ backlog' = Tail(backlog)
    /\ handle' = "read"
    /\ UNCHANGED <<mainPc, ret, portFree, timeout_secs, now, listener, txSlot, txHolders,
                   rx, slot, abortRequested, result, arrivals, acceptErrs, sent,
                   crashedWhileWaiting, call>>

\* lines 85-87: accept fails; the error is logged and the loop goes on
AcceptErr ==
    /\ handle = "accept"
    /\ acceptErrs < MaxAcceptErrs
    /\ acceptErrs' = acceptErrs + 1
    /\ UNCHANGED <<mainPc, ret, portFree, timeout_secs, now, listener, txSlot, txHolders,
                   rx, slot, handle, abortRequested, result, backlog, conns, arrivals,
                   sent, crashedWhileWaiting, call>>

\* ReadOk that takes the bytes read as Latin-1 text instead of decoding them
\* as UTF-8
ReadOk_Latin1 ==
    /\ handle = "read"
    /\ LET data == conns[Cur].data
           n == IF Len(data) < BufSize THEN Len(data) ELSE BufSize
           request == SubSeq(data, 1, n)
           parsed == parse_oauth_callback(request)
       IN  /\ result' = parsed
           /\ conns' = [conns EXCEPT ![Cur].read = "ok", ![Cur].read_at = now,
                                     ![Cur].response = Some(HttpResponse(parsed))]
    /\ handle' = "write"
    /\ UNCHANGED <<mainPc, ret, portFree, timeout_secs, now, listener, txSlot, txHolders,
                   rx, slot, abortRequested, backlog, arrivals, acceptErrs, sent,
                   crashedWhileWaiting, call>>

\* ReadOk with the response never written: the task goes from the parse
\* straight to the shutdown and the send
ReadOk_SkipWrite ==
    /\ handle = "read"
    /\ LET data == conns[Cur].data
           n == IF Len(data) < BufSize THEN Len(data) ELSE BufSize
           request == from_utf8_lossy(SubSeq(data, 1, n))
           parsed == parse_oauth_callback(request)
       IN  /\ result' = parsed
           /\ conns' = [conns EXCEPT ![Cur].read = "ok", ![Cur].read_at = now,
                                     ![Cur].response = Some(HttpResponse(parsed))]
    /\ handle' = "shutdown"
    /\ UNCHANGED <<mainPc, ret, portFree, timeout_secs, now, listener, txSlot, txHolders,
                   rx, slot, abortRequested, backlog, arrivals, acceptErrs, sent,
                   crashedWhileWaiting, call>>

\* ReadOk that takes a read of zero bytes as a closed connection and goes back
\* to accept
ReadOk_EmptyContinues ==
    /\ handle = "read"
    /\ LET data == conns[Cur].data
           n == IF Len(data) < BufSize THEN Len(data) ELSE BufSize
           request == from_utf8_lossy(SubSeq(data, 1, n))
           parsed == parse_oauth_callback(request)
       IN  IF n = 0
           THEN /\ conns' = [conns EXCEPT ![Cur].read = "ok", ![Cur].read_at = now]
                /\ handle' = "accept"
                /\ UNCHANGED result
           ELSE /\ result' = parsed
                /\ conns' = [conns EXCEPT ![Cur].read = "ok", ![Cur].read_at = now,
                                          ![Cur].response = Some(HttpResponse(parsed))]
                /\ handle' = "write"
    /\ UNCHANGED <<mainPc, ret, portFree, timeout_secs, now, listener, txSlot, txHolders,
                   rx, slot, abortRequested, backlog, arrivals, acceptErrs, sent,
                   crashedWhileWaiting, call>>

\* lines 45-72: the read returns n bytes; the request is parsed and the
\* response is built
ReadOk ==
    /\ handle = "read"
    /\ LET data == conns[Cur].data
           n == IF Len(data) < BufSize THEN Len(data) ELSE BufSize
           request == from_utf8_lossy(SubSeq(data, 1, n))
           parsed == parse_oauth_callback(request)
       IN  /\ result' = parsed
           /\ conns' = [conns EXCEPT ![Cur].read = "ok", ![Cur].read_at = now,
                                     ![Cur].response = Some(HttpResponse(parsed))]
    /\ handle' = "write"
    /\ UNCHANGED <<mainPc, ret, portFree, timeout_secs, now, listener, txSlot, txHolders,
                   rx, slot, abortRequested, backlog, arrivals, acceptErrs, sent,
                   crashedWhileWaiting, call>>

\* ReadErr that leaves the loop instead of continuing
ReadErr_Break ==
    /\ handle = "read"
    /\ conns' = [conns EXCEPT ![Cur].read = "err"]
    /\ handle' = "break"
    /\ UNCHANGED <<mainPc, ret, portFree, timeout_secs, now, listener, txSlot, txHolders,
                   rx, slot, abortRequested, result, backlog, arrivals, acceptErrs, sent,
                   crashedWhileWaiting, call>>

\* lines 46-51: the read fails; the error is logged, the socket is dropped and
\* the loop continues
ReadErr ==
    /\ handle = "read"
    /\ conns' = [conns EXCEPT ![Cur].read = "err"]
    /\ handle' = "accept"
    /\ UNCHANGED <<mainPc, ret, portFree, timeout_secs, now, listener, txSlot, txHolders,
                   rx, slot, abortRequested, result, backlog, arrivals, acceptErrs, sent,
                   crashedWhileWaiting, call>>

\* lines 74-76: write_all ends, with the whole response written or with an
\* error that is logged and otherwise ignored
WriteAll ==
    /\ handle = "write"
    /\ \E ok \in BOOLEAN :
           conns' = [conns EXCEPT ![Cur].written = IF ok THEN "full" ELSE "failed"]
    /\ handle' = "shutdown"
    /\ UNCHANGED <<mainPc, ret, portFree, timeout_secs, now, listener, txSlot, txHolders,
                   rx, slot, abortRequested, result, backlog, arrivals, acceptErrs, sent,
                   crashedWhileWaiting, call>>

\* Deliver without the break: the loop goes back to accept
Deliver_Continue ==
    /\ handle = "shutdown"
    /\ IF txSlot = "some"
       THEN /\ txSlot' = "taken"
            /\ sent' = Append(sent, [val |-> result, delivered |-> rx = "alive"])
            /\ slot' = IF rx = "alive" THEN Some(result) ELSE slot
       ELSE UNCHANGED <<txSlot, sent, slot>>
    /\ handle' = "accept"
    /\ UNCHANGED <<mainPc, ret, portFree, timeout_secs, now, listener, txHolders, rx,
                   abortRequested, result, backlog, conns, arrivals, acceptErrs,
                   crashedWhileWaiting, call>>

\* lines 77-83: shutdown ends (its result is ignored); the Sender is taken out
\* of the mutex and the result is sent, which fails when rx is gone; break
Deliver ==
    /\ handle = "shutdown"
    /\ IF txSlot = "some"
       THEN /\ txSlot' = "taken"
            /\ sent' = Append(sent, [val |-> result, delivered |-> rx = "alive"])
            /\ slot' = IF rx = "alive" THEN Some(result) ELSE slot
       ELSE UNCHANGED <<txSlot, sent, slot>>
    /\ handle' = "break"
    /\ UNCHANGED <<mainPc, ret, portFree, timeout_secs, now, listener, txHolders, rx,
                   abortRequested, result, backlog, conns, arrivals, acceptErrs,
                   crashedWhileWaiting, call>>

\* the task's future is dropped: the listener (moved into it) is closed and
\* tx_clone is released
DropFuture ==
    /\ listener' = "closed"
    /\ txHolders' = txHolders \ {"task"}

\* line 90: the async block returns and the runtime drops the future
TaskFinish ==
    /\ handle = "break"
    /\ handle' = "finished"
    /\ DropFuture
    /\ UNCHANGED <<mainPc, ret, portFree, timeout_secs, now, txSlot, rx, slot,
                   abortRequested, result, backlog, conns, arrivals, acceptErrs, sent,
                   crashedWhileWaiting, call>>

\* lines 96, 100, 104: abort() only marks the task and schedules it; the
\* runtime drops the future later, when it next runs the task at an await
TaskCancel ==
    /\ abortRequested
    /\ Suspended
    /\ handle' = "cancelled"
    /\ DropFuture
    /\ UNCHANGED <<mainPc, ret, portFree, timeout_secs, now, txSlot, rx, slot,
                   abortRequested, result, backlog, conns, arrivals, acceptErrs, sent,
                   crashedWhileWaiting, call>>

\* line 40: a panic inside the spawned task is caught by the runtime, which
\* drops the future
TaskPanic ==
    /\ Suspended
    /\ handle' = "panicked"
    /\ DropFuture
    /\ crashedWhileWaiting' = (mainPc = "waiting" /\ sent = <<>>)
    /\ UNCHANGED <<mainPc, ret, portFree, timeout_secs, now, txSlot, rx, slot,
                   abortRequested, result, backlog, conns, arrivals, acceptErrs, sent,
                   call>>

Next ==
    \/ BindOk
    \/ BindFail
    \/ Spawn
    \/ AwaitTimeout
    \/ Tick
    \/ Arrive
    \/ Accept
    \/ AcceptErr
    \/ ReadOk
    \/ ReadErr
    \/ WriteAll
    \/ Deliver
    \/ TaskFinish
    \/ TaskCancel
    \/ TaskPanic

Spec == Init /\ [][Next]_vars

\* The runtime runs a task that is ready and its timer fires: the caller's
\* steps and the clock are not postponed for ever.
LiveSpec ==
    Spec /\ WF_vars(Spawn) /\ WF_vars(Tick) /\ WF_vars(AwaitTimeout)

(***************************************************************************)
(* The pure functions called on their own                                  *)
(***************************************************************************)
\* "state"
S_state == <<115, 116, 97, 116, 101>>
\* "GET /cb?"
S_GetCb == <<71, 69, 84, 32, 47, 99, 98, 63>>
\* " HTTP/1.1\r\n\r\n"
S_HttpTail == <<32, 72, 84, 84, 80, 47, 49, 46, 49, 13, 10, 13, 10>>

StringsUpTo(alphabet, n) == UNION {[1..k -> alphabet] : k \in 0..n}

\* '\n', ' ', '%', '+', '4', '?', 'A', 'g' and U+00E9
RawAlphabet == {10, 32, 37, 43, 52, 63, 65, 103, 233}
RawStrings == StringsUpTo(RawAlphabet, MaxLen)

\* the printable ASCII characters
Printable == 32..126
TextStrings == StringsUpTo(Printable, MaxTextLen)

\* raw (still encoded) parameter values: "", "A", "%3Cb%3E", "a+b", "%2"
RawValues ==
    {<<>>, <<65>>, <<37, 51, 67, 98, 37, 51, 69>>, <<97, 43, 98>>, <<37, 50>>}
ParamKeys == {S_code, S_error, S_error_description, S_state}

\* one name=value pair of a query string, or a bare name (eq = FALSE)
Params ==
    {[key |-> k, eq |-> TRUE, value |-> v] : k \in ParamKeys, v \in RawValues}
        \cup {[key |-> k, eq |-> FALSE, value |-> <<>>] : k \in ParamKeys}
Queries == StringsUpTo(Params, MaxParams)

PairText(p) == IF p.eq THEN p.key \o <<61>> \o p.value ELSE p.key

RECURSIVE QueryText(_)
QueryText(q) ==
    IF q = <<>> THEN <<>>
    ELSE IF Len(q) = 1 THEN PairText(q[1])
    ELSE PairText(q[1]) \o <<38>> \o QueryText(Tail(q))

\* the request a browser sends for a redirect with this query string
RequestText(q) == S_GetCb \o QueryText(q) \o S_HttpTail

\* the text a call's argument stands for
ArgText(c) == IF c.kind = "query" THEN RequestText(c.arg) ELSE c.arg

\* percent-encoding of a text (RFC 3986: every character but letters, digits,
\* '-', '.', '_' and '~' becomes %XX, upper-case hexadecimal)
Unreserved == (48..57) \cup (65..90) \cup (97..122) \cup {45, 46, 95, 126}
HexChar(d) == IF d < 10 THEN 48 + d ELSE 55 + d
RECURSIVE PercentEncode(_)
PercentEncode(s) ==
    IF s = <<>> THEN <<>>
    ELSE (IF Head(s) \in Unreserved THEN <<Head(s)>>
          ELSE <<37, HexChar(Head(s) \div 16), HexChar(Head(s) % 16)>>)
         \o PercentEncode(Tail(s))

serverVars ==
    <<mainPc, ret, portFree, timeout_secs, now, listener, txSlot, txHolders, rx, slot,
      handle, abortRequested, result, backlog, conns, arrivals, acceptErrs, sent,
      crashedWhileWaiting>>

\* no server call is in progress; one argument is chosen
PureInit ==
    /\ mainPc = "idle"
    /\ ret = Returned("none", NoResult, 0)
    /\ portFree = TRUE
    /\ timeout_secs = 1
    /\ now = 0
    /\ listener = "none"
    /\ txSlot = "none"
    /\ txHolders = {}
    /\ rx = "none"
    /\ slot = None
    /\ handle = "unspawned"
    /\ abortRequested = FALSE
    /\ result = NoResult
    /\ backlog = <<>>
    /\ conns = <<>>
    /\ arrivals = 0
    /\ acceptErrs = 0
    /\ sent = <<>>
    /\ crashedWhileWaiting = FALSE
    /\ \/ \E x \in RawStrings : call = [fn |-> "none", kind |-> "raw", arg |-> x, out |-> <<>>]
       \/ \E x \in TextStrings : call = [fn |-> "none", kind |-> "text", arg |-> x, out |-> <<>>]
       \/ \E x \in Queries : call = [fn |-> "none", kind |-> "query", arg |-> x, out |-> <<>>]

\* urlencoding_decode(arg)
ApplyDecode ==
    /\ call.fn = "none"
    /\ call.kind = "raw"
    /\ call' = [call EXCEPT !.fn = "urlencoding_decode", !.out = urlencoding_decode(call.arg)]
    /\ UNCHANGED serverVars

\* urlencoding_decode of the percent-encoding of arg
ApplyDecodeEncoded ==
    /\ call.fn = "none"
    /\ call.kind = "text"
    /\ call' = [call EXCEPT !.fn = "urlencoding_decode",
                            !.out = urlencoding_decode(PercentEncode(call.arg))]
    /\ UNCHANGED serverVars

\* parse_oauth_callback(request)
ApplyParse ==
    /\ call.fn = "none"
    /\ call.kind \in {"raw", "query"}
    /\ call' = [call EXCEPT !.fn = "parse_oauth_callback",
                            !.out = parse_oauth_callback(ArgText(call))]
    /\ UNCHANGED serverVars

\* lines 58-72: the response the task builds for a request
ApplyRespond ==
    /\ call.fn = "none"
    /\ call.kind \in {"raw", "query"}
    /\ call' = [call EXCEPT !.fn = "respond",
                            !.out = HttpResponse(parse_oauth_callback(ArgText(call)))]
    /\ UNCHANGED serverVars

PureNext ==
    \/ ApplyDecode
    \/ ApplyDecodeEncoded
    \/ ApplyParse
    \/ ApplyRespond

PureSpec == PureInit /\ [][PureNext]_vars

(***************************************************************************)
(* Properties                                                              *)
(***************************************************************************)
Answered == {i \in 1..Len(conns) : conns[i].written # "no"}
ReadOkConns == {i \in 1..Len(conns) : conns[i].read = "ok"}
Delivered == sent # <<>> /\ sent[1].delivered
AfterBind == mainPc = "returned" /\ ret.kind \in {"outcome", "closed", "timeout"}

\* C1: whenever the call has returned after a successful bind (an outcome,
\* the timeout error or the channel-closed error), the listening socket is no
\* longer bound.
C1_ListenerReleasedOnReturn == AfterBind => listener # "bound"

\* C2: if the spawned task stops by a panic while the caller waits and nothing
\* was sent, the producer side of the channel is closed and the call returns
\* the channel-closed error.
C2_CrashClosesChannel ==
    crashedWhileWaiting =>
        /\ mainPc = "waiting" => SenderDropped
        /\ mainPc = "returned" => ret.kind = "closed"

\* C3 (as stated): an outcome is sent only for a connection that was read and
\* whose whole response was written.
C3_SentOnlyAfterFullWrite ==
    sent # <<>> => conns[Cur].read = "ok" /\ conns[Cur].written = "full"

\* C3 (amended): an outcome is sent only for a connection that was read and on
\* which write_all of the response has ended, with the whole response written
\* or with a write error; no other connection was answered.
C3_SentOnlyAfterWriteEnded ==
    sent # <<>> =>
        /\ conns[Cur].read = "ok"
        /\ conns[Cur].written \in {"full", "failed"}
        /\ Answered = {Cur}

C3_Witness == sent # <<>> /\ conns[Cur].written = "full" /\ handle = "finished"

\* C4: at most one connection is read successfully, at most one is answered
\* and at most one outcome is sent; once the outcome is sent the loop has been
\* left, and no connection is accepted or read afterwards.
C4_OneExchange ==
    /\ [](/\ Len(sent) <= 1
          /\ Cardinality(ReadOkConns) <= 1
          /\ Cardinality(Answered) <= 1
          /\ sent # <<>> => handle \in {"break", "finished"})
    /\ [][sent # <<>> => conns' = conns]_vars

C4_Witness == sent # <<>> /\ handle = "finished" /\ backlog # <<>> /\ Len(conns) = 1

C6_TimesOut ==
    /\ []((AfterBind /\ ReadOkConns = {}) => ret = Returned("timeout", NoResult, timeout_secs))
    /\ (mainPc = "bound") ~> (mainPc = "returned")

C6_Witness ==
    /\ ret.kind = "timeout"
    /\ acceptErrs > 0
    /\ conns # <<>>
    /\ \A i \in 1..Len(conns) : conns[i].read = "err"

\* C7: when the bind fails the only step the call takes is to return the bind
\* error; nothing happens afterwards, and no listener, channel, task or
\* accepted connection ever exists; the call is never bound or waiting.
C7_BindFailureTerminal ==
    /\ [](~portFree =>
            /\ mainPc \in {"idle", "returned"}
            /\ mainPc = "returned" => ret.kind = "bind_error"
            /\ listener = "none" /\ handle = "unspawned"
            /\ txSlot = "none" /\ txHolders = {} /\ rx = "none"
            /\ conns = <<>> /\ backlog = <<>>)
    /\ [](ret.kind = "bind_error" => ~portFree)
    /\ [][(mainPc = "idle" /\ ~portFree) =>
              (mainPc' = "returned" /\ ret'.kind = "bind_error")]_vars
    /\ [][ret.kind # "bind_error"]_vars

C7_Witness == mainPc = "returned" /\ ret.kind = "bind_error"

\* C8: a connection whose read failed gets no response; the step that fails
\* the read sends nothing, leaves what the caller gets untouched and puts the
\* task back at accept.
C8_ReadErrorTolerated ==
    /\ [](\A i \in 1..Len(conns) :
              conns[i].read = "err" => (conns[i].written = "no" /\ conns[i].response = None))
    /\ [][(handle = "read" /\ Len(conns') = Len(conns) /\ conns'[Cur].read = "err") =>
              (handle' = "accept" /\ sent' = sent /\ slot' = slot /\ ret' = ret
               /\ listener' = "bound")]_vars

\* a valid redirect is captured after a connection whose read failed
C8_Witness ==
    /\ Len(conns) = 2
    /\ conns[1].read = "err"
    /\ ret.kind = "outcome"
    /\ is_some(ret.val.code)

\* C9: the response built for a connection that was read is 200 OK with the
\* success page exactly when the parsed outcome has a code, and 400 Bad
\* Request with the error page otherwise; it always carries the Content-Type,
\* a Content-Length equal to the body's byte length, and Connection: close.
C9_ResponseMatchesOutcome ==
    \A i \in ReadOkConns :
        LET parsed == parse_oauth_callback(from_utf8_lossy(conns[i].data))
            resp == conns[i].response[1]
        IN  /\ is_some(conns[i].response)
            /\ is_some(parsed.code) =>
                   (resp.status = "200 OK" /\ resp.body = get_success_html)
            /\ ~is_some(parsed.code) =>
                   /\ resp.status = "400 Bad Request"
                   /\ resp.body = get_error_html(IF is_some(parsed.error)
                                                 THEN parsed.error[1] ELSE S_UnknownError)
            /\ resp.content_type = "text/html; charset=utf-8"
            /\ resp.content_length = ByteLen(resp.body)
            /\ resp.connection = "close"

\* a request with neither code nor error was answered 400
C9_Witness ==
    \E i \in ReadOkConns :
        /\ conns[i].data = ReqOnlyState
        /\ conns[i].written = "full"
        /\ conns[i].response[1].status = "400 Bad Request"

\* C10 (as stated): when a connection was read successfully before the
\* deadline, what the call returns is the outcome parsed from it.
C10_ReadImpliesOutcome ==
    \A i \in ReadOkConns :
        (AfterBind /\ conns[i].read_at < timeout_secs) =>
            ret = Returned("outcome", parse_oauth_callback(from_utf8_lossy(conns[i].data)), 0)

\* C10 (amended): when the call returns an outcome, it is parse_oauth_callback
\* of the bytes of the first connection that was read successfully; the
\* connections before it failed to read and none after it was accepted.
C10_OutcomeIsFirstRead ==
    ret.kind = "outcome" =>
        \E i \in ReadOkConns :
            /\ \A j \in 1..Len(conns) : j # i => (j < i /\ conns[j].read = "err")
            /\ ret.val = parse_oauth_callback(from_utf8_lossy(conns[i].data))
            /\ conns[i].data = ReqCode =>
                   ret.val = OAuthCallbackResult(Some(S_ABC123), None, None)

C10_Witness ==
    /\ ret.kind = "outcome"
    /\ ret.val = OAuthCallbackResult(Some(S_ABC123), None, None)
    /\ backlog # <<>>

(***************************************************************************)
(* Properties of the parser and the renderer                               *)
(***************************************************************************)
Parsed == call.fn = "parse_oauth_callback"
Responded == call.fn = "respond"
Decoded == call.fn = "urlencoding_decode"
KeyIdx(q, name) == {i \in 1..Len(q) : q[i].key = name}

\* the character references of '&', '<', '>', the double and the single quote
Entities ==
    {<<38, 97, 109, 112, 59>>, <<38, 108, 116, 59>>, <<38, 103, 116, 59>>,
     <<38, 113, 117, 111, 116, 59>>, <<38, 35, 51, 57, 59>>}

\* a text in which '<', '>' and the two quotes do not occur and every '&'
\* starts a character reference
PlainText(m) ==
    \A i \in 1..Len(m) :
        /\ m[i] \notin {60, 62, 34, 39}
        /\ m[i] = 38 =>
               \E e \in Entities :
                   i + Len(e) - 1 <= Len(m) /\ SubSeq(m, i, i + Len(e) - 1) = e

\* C11: in the error page built for a request, the part that comes from the
\* error message holds no unescaped '<', '>', '&' or quote.
C11_ErrorPageEscapesMessage ==
    (Responded /\ call.out.status = "400 Bad Request") =>
        PlainText(SubSeq(call.out.body, 2, Len(call.out.body) - 1))

\* C12 (as stated): every outcome of parse_oauth_callback has code or error
\* present.
C12_CodeOrErrorPresent ==
    Parsed => (is_some(call.out.code) \/ is_some(call.out.error))

\* C12 (amended): code and error are both absent only for a request that has
\* a query string; with a query string each is present exactly when the query
\* names it; a request without any '?' gets a diagnostic in error and no code.
C12_AbsentOnlyWithQuery ==
    Parsed =>
        /\ (~is_some(call.out.code) /\ ~is_some(call.out.error)) =>
               \E i \in 1..Len(ArgText(call)) : ArgText(call)[i] = 63
        /\ call.kind = "query" =>
               /\ is_some(call.out.code) <=> KeyIdx(call.arg, S_code) # {}
               /\ is_some(call.out.error) <=> KeyIdx(call.arg, S_error) # {}
        /\ (\A i \in 1..Len(ArgText(call)) : ArgText(call)[i] # 63) =>
               /\ call.out.error \in {Some(S_InvalidHttpRequest), Some(S_NoQueryParameters)}
               /\ call.out.code = None
               /\ call.out.error_description = None

C12_Witness ==
    /\ Parsed
    /\ call.kind = "query"
    /\ call.arg # <<>>
    /\ call.out = NoResult

\* a query with the parameters other than code, error and error_description
\* left out
WithoutOthers(q) ==
    SelectSeq(q, LAMBDA p : p.key \in {S_code, S_error, S_error_description})

\* C13: a query with code=<v> and no error parameter yields code =
\* decode(v) and no error; a query with error=<e> and no code parameter yields
\* error = decode(e) and no code; the other parameters change nothing.
C13_CodeOrErrorDecoded ==
    (Parsed /\ call.kind = "query") =>
        LET q == call.arg
            codes == KeyIdx(q, S_code)
            errs == KeyIdx(q, S_error)
        IN  /\ (codes # {} /\ errs = {}) =>
                   /\ \E i \in codes :
                          call.out.code = Some(urlencoding_decode(q[i].value))
                   /\ call.out.error = None
            /\ (errs # {} /\ codes = {}) =>
                   /\ \E i \in errs :
                          call.out.error = Some(urlencoding_decode(q[i].value))
                   /\ call.out.code = None
            /\ call.out = parse_oauth_callback(RequestText(WithoutOthers(q)))

\* 'GET /cb?code=a+b&state=A HTTP/1.1' gives the code "a b"
C13_Witness ==
    /\ Parsed
    /\ call.kind = "query"
    /\ Len(call.arg) = 2
    /\ call.arg[1].key = S_code
    /\ call.arg[1].value = <<97, 43, 98>>
    /\ call.arg[2].key = S_state
    /\ call.arg[2].value = <<65>>
    /\ call.out = OAuthCallbackResult(Some(<<97, 32, 98>>), None, None)

\* the positions of s before its first line feed
LineOf(s) ==
    {i \in 1..Len(s) : \A j \in 1..i : s[j] # 10}

\* the positions at which a token of the first line of s starts
TokenStarts(s) ==
    {i \in LineOf(s) : s[i] \notin WhiteSpace /\ (i = 1 \/ s[i - 1] \in WhiteSpace)}

\* the positions of the second token of the first line of s
TargetOf(s) ==
    LET second == SetMin(TokenStarts(s) \ {SetMin(TokenStarts(s))})
    IN  {i \in LineOf(s) : i >= second /\ \A j \in second..i : s[j] \notin WhiteSpace}

\* C14: parse_oauth_callback gives an outcome for every input: a first line
\* with fewer than two white-space separated tokens gives the error "Invalid
\* HTTP request", a request target without '?' gives the error "No query
\* parameters in callback", each with no code and no description.
C14_ParserTotal ==
    Parsed =>
        LET s == ArgText(call)
        IN  /\ DOMAIN call.out = {"code", "error", "error_description"}
            /\ \A f \in DOMAIN call.out : Len(call.out[f]) \in {0, 1}
            /\ IF Cardinality(TokenStarts(s)) < 2
               THEN call.out = OAuthCallbackResult(None, Some(S_InvalidHttpRequest), None)
               ELSE (\A i \in TargetOf(s) : s[i] # 63) =>
                        call.out = OAuthCallbackResult(None, Some(S_NoQueryParameters), None)

\* both diagnostics are produced: "A\nA" has one token on its first line
C14_Witness ==
    /\ Parsed
    /\ call.kind = "raw"
    /\ call.arg = <<65, 10, 65>>
    /\ call.out.error = Some(S_InvalidHttpRequest)

IsHex(c) == c \in (48..57) \cup (65..70) \cup (97..102)
HexVal(c) == IF c <= 57 THEN c - 48 ELSE IF c <= 70 THEN c - 55 ELSE c - 87

\* the decoding in which '%' and two hexadecimal digits give a byte, a '%'
\* followed by anything else stays as it is together with the (at most two)
\* characters after it, '+' gives a space and every other character itself
RECURSIVE DecodeAsStated(_)
DecodeAsStated(s) ==
    IF s = <<>> THEN <<>>
    ELSE IF s[1] = 37
         THEN IF Len(s) >= 3 /\ IsHex(s[2]) /\ IsHex(s[3])
              THEN <<16 * HexVal(s[2]) + HexVal(s[3])>>
                       \o DecodeAsStated(SubSeq(s, 4, Len(s)))
              ELSE SubSeq(s, 1, IF Len(s) < 3 THEN Len(s) ELSE 3)
                       \o DecodeAsStated(SubSeq(s, 4, Len(s)))
    ELSE IF s[1] = 43 THEN <<32>> \o DecodeAsStated(Tail(s))
    ELSE <<s[1]>> \o DecodeAsStated(Tail(s))

\* C15: urlencoding_decode decodes only a '%' followed by two hexadecimal
\* digits and leaves every other '%' sequence in the output as it was.
C15_InvalidEscapesVerbatim ==
    (Decoded /\ call.kind = "raw") => call.out = DecodeAsStated(call.arg)

\* C16: decoding the percent-encoding of a printable ASCII text gives the text
\* back, and a '+' in a text without '%' decodes to a space.
C16_RoundTrip ==
    /\ (Decoded /\ call.kind = "text") => call.out = call.arg
    /\ (Decoded /\ call.kind = "raw" /\ \A i \in 1..Len(call.arg) : call.arg[i] # 37) =>
           call.out = [i \in 1..Len(call.arg) |->
                           IF call.arg[i] = 43 THEN 32 ELSE call.arg[i]]

\* "+%" is encoded as "%2B%25" and decoded back
C16_Witness ==
    /\ Decoded
    /\ call.kind = "text"
    /\ call.arg = <<43, 37>>
    /\ PercentEncode(call.arg) = <<37, 50, 66, 37, 50, 53>>
    /\ call.out = <<43, 37>>

\* C17: the response does not depend on the value of the code parameter: two
\* requests that differ only in that value get the same response.
C17_CodeNotEchoed ==
    (Responded /\ call.kind = "query") =>
        \A i \in KeyIdx(call.arg, S_code) : \A v \in RawValues :
            call.arg[i].eq =>
                HttpResponse(parse_oauth_callback(
                    RequestText([call.arg EXCEPT ![i].value = v]))) = call.out

\* 'GET /cb?code=A HTTP/1.1' is answered with exactly the success page
C17_Witness ==
    /\ Responded
    /\ call.kind = "query"
    /\ call.arg = <<[key |-> S_code, eq |-> TRUE, value |-> <<65>>]>>
    /\ call.out.status = "200 OK"
    /\ call.out.body = get_success_html

\* the outcome field that belongs to a repeated name holds the decoded value
\* of its last occurrence
LastWins(q, name, field) ==
    KeyIdx(q, name) # {} =>
        field = Some(urlencoding_decode(q[SetMax(KeyIdx(q, name))].value))

\* C19: when a query repeats a parameter name the value of its last
\* occurrence is used, whatever the other parameters and their order.
C19_LastOccurrenceWins ==
    (Parsed /\ call.kind = "query") =>
        /\ LastWins(call.arg, S_code, call.out.code)
        /\ LastWins(call.arg, S_error, call.out.error)
        /\ LastWins(call.arg, S_error_description, call.out.error_description)

\* 'GET /cb?code=A&code=a+b HTTP/1.1' gives the code "a b"
C19_Witness ==
    /\ Parsed
    /\ call.kind = "query"
    /\ Len(call.arg) = 2
    /\ call.arg[1].key = S_code /\ call.arg[1].value = <<65>>
    /\ call.arg[2].key = S_code /\ call.arg[2].value = <<97, 43, 98>>
    /\ call.out.code = Some(<<97, 32, 98>>)

(***************************************************************************)
(* Properties of the call, continued                                       *)
(***************************************************************************)
TaskOver == handle \in {"finished", "panicked", "cancelled"}

\* C18: every return after a successful bind has signalled the task to stop,
\* the signal is given by the returning step and not before, and a task that
\* is over is not changed by it: its state, the connections and what it sent
\* stay as they are.
C18_AbortOnEveryReturn ==
    /\ [](AfterBind => abortRequested)
    /\ [][(mainPc = "waiting" /\ mainPc' = "returned") =>
              (~abortRequested /\ abortRequested')]_vars
    /\ [][TaskOver =>
              /\ handle' = handle
              /\ listener' = listener
              /\ conns' = conns
              /\ sent' = sent
              /\ slot' = slot
              /\ result' = result]_vars

\* the call returns an outcome after the task has run to its end
C18_Witness ==
    /\ AfterBind
    /\ ret.kind = "outcome"
    /\ abortRequested
    /\ handle = "finished"

InvalidRequestResult == OAuthCallbackResult(None, Some(S_InvalidHttpRequest), None)
EmptyReads == {i \in ReadOkConns : conns[i].data = <<>>}

\* C20 (as stated): when a connection was read with zero bytes before the
\* deadline, the call returns the outcome error = "Invalid HTTP request".
C20_EmptyReadReturnsOutcome ==
    \A i \in EmptyReads :
        (AfterBind /\ conns[i].read_at < timeout_secs) =>
            ret = Returned("outcome", InvalidRequestResult, 0)

\* C20 (amended): a connection read with zero bytes is a read connection: its
\* answer is 400 Bad Request with the page of "Invalid HTTP request", the task
\* has left the accept and read steps for good, no connection is accepted
\* after it, and the only outcome sent or returned is error = "Invalid HTTP
\* request".
C20_EmptyReadEndsLoop ==
    \A i \in EmptyReads :
        /\ is_some(conns[i].response)
        /\ conns[i].response[1].status = "400 Bad Request"
        /\ conns[i].response[1].body = get_error_html(S_InvalidHttpRequest)
        /\ handle \notin {"accept", "read"}
        /\ i = Len(conns)
        /\ \A k \in 1..Len(sent) : sent[k].val = InvalidRequestResult
        /\ ret.kind = "outcome" => ret.val = InvalidRequestResult

\* the empty connection was answered and its outcome returned while a later
\* connection waits in the backlog, never accepted
C20_Witness ==
    /\ EmptyReads # {}
    /\ ret = Returned("outcome", InvalidRequestResult, 0)
    /\ backlog = <<ReqCode>>
    /\ handle = "finished"

====
